---- MODULE Spec2Model ----
(***************************************************************************)
(* Model of Campaign-ER.py: the POST /update-engagement-for-campaign       *)
(* handler and the helpers it calls.  One request is one behaviour: the    *)
(* handler is a sequential procedure, and every upstream HTTP call is a    *)
(* step whose outcome (success with some payload, or an HTTP error that    *)
(* raise_for_status turns into an exception) is chosen by the environment. *)
(*                                                                         *)
(* Python values are encoded as follows.  A dict is a function whose       *)
(* DOMAIN is the set of keys present.  A value that may be None is a       *)
(* sequence of length 0 (None) or 1 (the value).  Text that the code       *)
(* parses (durations, counts) is a sequence of one-character strings.      *)
(***************************************************************************)
EXTENDS Integers, Sequences, FiniteSets, TLC

VARIABLES
    pc,                 \* position of the handler
    data,               \* request.get_json()
    campaign_call,      \* the campaign record fetch, once made: arguments and result
    linked_influencer_ids,
    idx,                \* number of loop iterations started
    update_results,
    response,           \* the HTTP response, None until the handler returns
    calls,              \* upstream calls made by the current loop iteration, with their outcome
    channel_id,
    playlist_id,
    pages,              \* playlistItems requests of the current listing, with their responses
    next_page,
    video_ids,
    stats_i,            \* the batch loop's i in get_video_stats_batch
    batches,            \* videos requests of the current get_video_stats_batch, with their responses
    stats,              \* get_video_stats_batch's accumulator
    video_stats,        \* what get_video_stats_batch returned to the handler
    longform_views, longform_likes, longform_comments,
    fields              \* payload of the record update

reqVars  == <<data, campaign_call, linked_influencer_ids>>
listVars == <<pages, next_page, video_ids>>
statVars == <<stats_i, batches, stats, video_stats>>
aggVars  == <<longform_views, longform_likes, longform_comments, fields>>
vars == <<pc, data, campaign_call, linked_influencer_ids, idx, update_results,
          response, calls, channel_id, playlist_id, pages, next_page, video_ids,
          stats_i, batches, stats, video_stats,
          longform_views, longform_likes, longform_comments, fields>>

-----------------------------------------------------------------------------
(* Bounds of the model *)

MaxInfluencers == 2     \* longest linked-influencer list
ChannelPages == 2       \* a linked influencer's playlist: most pages,
ChannelPageSize == 1    \*   most items on one page,
ChannelVideos == 1      \*   most items in all
MaxPages == 3           \* the same for get_recent_video_ids on its own
MaxItems == 2
MaxVideos == 3
MaxDetails == 3         \* most video details aggregated, for the aggregation on its own
MaxIds == 101           \* longest id list, for get_video_stats_batch on its own
Now == 100              \* datetime.utcnow(), in days

(* Program constants *)

BatchSize == 50
CutoffDays == 90
LongformSeconds == 180

-----------------------------------------------------------------------------
(* Python values *)

None == <<>>
Some(x) == <<x>>

\* dict.get(key, default)
Get(d, key, default) == IF key \in DOMAIN d THEN d[key] ELSE default

\* Truthiness of a dict or list: empty is false.
EmptyDict == <<>>

\* sum(list)
RECURSIVE Sum(_)
Sum(s) == IF s = <<>> THEN 0 ELSE Head(s) + Sum(Tail(s))

\* int(a / b) for b > 0: true division, then truncation toward zero.
IntDiv(a, b) == IF a >= 0 THEN a \div b ELSE -((-a) \div b)

Min(a, b) == IF a <= b THEN a ELSE b

-----------------------------------------------------------------------------
(* Text the code parses *)

DigitValue == ("0" :> 0) @@ ("1" :> 1) @@ ("2" :> 2) @@ ("3" :> 3) @@ ("4" :> 4) @@
              ("5" :> 5) @@ ("6" :> 6) @@ ("7" :> 7) @@ ("8" :> 8) @@ ("9" :> 9)

IsDigit(c) == c \in DOMAIN DigitValue

\* Value of a sequence of digits.
RECURSIVE DigitsValue(_)
DigitsValue(s) ==
    IF s = <<>> THEN 0
    ELSE 10 * DigitsValue(SubSeq(s, 1, Len(s) - 1)) + DigitValue[s[Len(s)]]

\* int(text): the value, or None where Python raises ValueError.
\* (The counts the platform sends are unsigned, so is the text modelled.)
ParseInt(s) ==
    IF s # <<>> /\ \A k \in 1..Len(s) : IsDigit(s[k]) THEN Some(DigitsValue(s)) ELSE None

\* First position at or after i that holds no digit.
RECURSIVE NumEnd(_, _)
NumEnd(s, i) == IF i <= Len(s) /\ IsDigit(s[i]) THEN NumEnd(s, i + 1) ELSE i

DateUnits == << <<"W", 604800>>, <<"D", 86400>> >>
TimeUnits == << <<"H", 3600>>, <<"M", 60>>, <<"S", 1>> >>

\* A run of <number><designator> components whose designators appear in the
\* order of `units`, each at most once: the seconds they add up to, or None.
RECURSIVE ParseParts(_, _, _, _)
ParseParts(s, i, total, units) ==
    IF i > Len(s) THEN Some(total)
    ELSE LET j == NumEnd(s, i) IN
         IF j = i \/ j > Len(s) \/ ~(\E k \in 1..Len(units) : units[k][1] = s[j]) THEN None
         ELSE LET k == CHOOSE k \in 1..Len(units) : units[k][1] = s[j]
                  n == DigitsValue(SubSeq(s, i, j - 1))
              IN  ParseParts(s, j + 1, total + n * units[k][2], SubSeq(units, k + 1, Len(units)))

\* isodate.parse_duration for the week/day and hour/minute/second forms
\* "P[nW][nD][T[nH][nM][nS]]": total seconds, or None where it raises.  A "P"
\* with nothing after it is no duration; a "T" with nothing after it is taken.
parse_duration(s) ==
    IF Len(s) < 2 \/ s[1] # "P" THEN None
    ELSE LET ts == {k \in 2..Len(s) : s[k] = "T"}
             t  == IF ts = {} THEN Len(s) + 1 ELSE CHOOSE k \in ts : \A m \in ts : k <= m
             d  == ParseParts(SubSeq(s, 2, t - 1), 1, 0, DateUnits)
             h  == ParseParts(SubSeq(s, t + 1, Len(s)), 1, 0, TimeUnits)
         IN  IF d = None \/ h = None THEN None ELSE Some(d[1] + h[1])

\* is_longform with `>` for `>=`.
is_longform_strict(iso_duration) ==
    LET duration == parse_duration(iso_duration)
    IN  IF duration = None THEN FALSE ELSE duration[1] > LongformSeconds

\* Lines 99-104: a text that does not parse raises inside the try and gives
\* False.
is_longform(iso_duration) ==
    LET duration == parse_duration(iso_duration)
    IN  IF duration = None THEN FALSE ELSE duration[1] >= LongformSeconds

-----------------------------------------------------------------------------
(* What the environment can send *)

\* request.get_json(): no JSON body, an empty object, an object without the
\* record id, one with it, and one that names the campaign table too.
Bodies ==
    { None, Some(EmptyDict), Some([campaignTableName |-> "Deals"]),
      Some([campaignRecordId |-> "recC"]),
      Some([campaignRecordId |-> "recC", campaignTableName |-> "Deals"]) }

InfluencerIds == {"recA", "recB"}

SeqsUpTo(S, n) == UNION {[1..k -> S] : k \in 0..n}

\* Fields of a campaign record: the link field absent, empty, or a list.
CampaignRecords ==
    {EmptyDict} \cup {[Creator |-> l] : l \in SeqsUpTo(InfluencerIds, MaxInfluencers)}

\* Fields of an influencer record: the channel id absent, empty, or set.
InfluencerRecords ==
    {EmptyDict, ("YouTube Channel ID" :> ""), ("YouTube Channel ID" :> "UC1")}

\* Bodies of a successful channels lookup; an item is reduced to
\* contentDetails.relatedPlaylists.uploads.
ChannelResponses == {EmptyDict, [items |-> <<>>], [items |-> <<[uploads |-> "UU1"]>>]}

CUTOFF_DATE == Now - CutoffDays

Timestamps == {CUTOFF_DATE - 1, CUTOFF_DATE, CUTOFF_DATE + 1}

\* Number of items on the pages fetched so far.
RECURSIVE Served(_)
Served(ps) ==
    IF ps = <<>> THEN 0 ELSE Len(Get(Head(ps).data, "items", <<>>)) + Served(Tail(ps))

\* The playlists served: at most `pages` pages of at most `pageSize` items,
\* `videos` items in all.
ChannelPlaylists == [pages |-> ChannelPages, pageSize |-> ChannelPageSize,
                     videos |-> ChannelVideos]
AnyPlaylists == [pages |-> MaxPages, pageSize |-> MaxItems, videos |-> MaxVideos]

\* Bodies of a successful playlistItems request for the page after the
\* fetched pages `ps`.  An item is reduced to contentDetails.videoId /
\* videoPublishedAt; the id of an item is its position in the playlist.  A
\* page before the last carries the token of the next one.
PageItems(served, playlists) ==
    UNION { { [k \in 1..n |-> [videoId |-> served + k, videoPublishedAt |-> ts[k]]] :
                ts \in [1..n -> Timestamps] } :
            n \in 0..Min(playlists.pageSize, playlists.videos - served) }

PageResponses(ps, playlists) ==
    {[items |-> it] : it \in PageItems(Served(ps), playlists)}
    \cup (IF Len(ps) + 1 < playlists.pages
          THEN {[items |-> it, nextPageToken |-> Len(ps) + 2] :
                  it \in PageItems(Served(ps), playlists)}
          ELSE {})

PT3M0S  == <<"P", "T", "3", "M", "0", "S">>
PT2M59S == <<"P", "T", "2", "M", "5", "9", "S">>
PT1H    == <<"P", "T", "1", "H">>

\* What a videos item can look like, without its id: contentDetails.duration
\* and the three statistics, each present or not, the counts being text.
LongVideoA ==
    [duration |-> PT3M0S, viewCount |-> <<"1","0","0">>, likeCount |-> <<"1","0">>,
     commentCount |-> <<"1">>]
LongVideoB ==
    [duration |-> PT1H, viewCount |-> <<"2","0","0">>, likeCount |-> <<"2","0">>,
     commentCount |-> <<"3">>]
LongVideoNoCounts == [duration |-> PT3M0S, viewCount |-> <<"2","0","1">>]
ShortVideo ==
    [duration |-> PT2M59S, viewCount |-> <<"9","9","9">>, likeCount |-> <<"9","9">>,
     commentCount |-> <<"9">>]
\* A like count that is no number.
BadLikesVideo ==
    [duration |-> PT3M0S, viewCount |-> <<"1","0","0">>, likeCount |-> <<"1","k">>,
     commentCount |-> <<"9">>]
\* A duration that is no ISO-8601 duration.
BadDurationVideo ==
    [duration |-> <<"3",":","0","0">>, viewCount |-> <<"7","0","0">>,
     likeCount |-> <<"7","0">>, commentCount |-> <<"7">>]
NoDurationVideo ==
    [viewCount |-> <<"8","0","0">>, likeCount |-> <<"8","0">>, commentCount |-> <<"8">>]

VideoKinds ==
    {LongVideoA, LongVideoB, LongVideoNoCounts, ShortVideo, BadLikesVideo,
     BadDurationVideo, NoDurationVideo}

\* The kinds among the videos of the linked influencers.
ChannelVideoKinds == {LongVideoA, ShortVideo, BadLikesVideo}

\* Bodies of a successful videos request for a batch of ids: one item per id,
\* in the order asked, each of one of `kinds`.
VideoResponses(batch, kinds) ==
    { [items |-> [k \in 1..Len(batch) |-> [id |-> batch[k]] @@ ks[k]]] :
        ks \in [1..Len(batch) -> kinds] }

-----------------------------------------------------------------------------
(* The handler: request check and campaign fetch *)

\* dict.get(key) of a value that may be missing: None when it is.
GetOpt(d, key) == IF key \in DOMAIN d THEN Some(d[key]) ELSE None

\* Falsy with the empty string taken for a value (`x is None`).
Falsy_none_only(x) == x = None

\* `not x` for a string that may be None.
Falsy(x) == x = None \/ x = Some("")

iterVars == <<calls, channel_id, playlist_id, pages, next_page, video_ids,
              stats_i, batches, stats, video_stats,
              longform_views, longform_likes, longform_comments, fields>>

Init ==
    /\ pc = "start"
    /\ data \in Bodies
    /\ campaign_call = None
    /\ linked_influencer_ids = <<>>
    /\ idx = 0
    /\ update_results = <<>>
    /\ response = None
    /\ calls = <<>>
    /\ channel_id = None
    /\ playlist_id = None
    /\ pages = <<>>
    /\ next_page = None
    /\ video_ids = <<>>
    /\ stats_i = 0
    /\ batches = <<>>
    /\ stats = <<>>
    /\ video_stats = <<>>
    /\ longform_views = <<>>
    /\ longform_likes = <<>>
    /\ longform_comments = <<>>
    /\ fields = None

\* An exception that nothing in the handler catches: the framework answers
\* 500 and the request is over.
Unhandled(exc) == [status |-> 500, unhandled |-> exc]

\* Lines 116-121.
CheckRequest ==
    /\ pc = "start"
    /\ IF data = None \/ data[1] = EmptyDict \/ "campaignRecordId" \notin DOMAIN data[1]
       THEN /\ response' = [status |-> 400,
                            error |-> "Missing 'campaignRecordId' in request body"]
            /\ pc' = "done"
       ELSE /\ pc' = "campaign"
            /\ UNCHANGED response
    /\ UNCHANGED <<reqVars, idx, update_results, iterVars>>

\* Lines 120-124: the campaign fetch with its result, the fields or None for
\* an exception.
CampaignCall(result) ==
    Some([table |-> Get(data[1], "campaignTableName", "Campaigns"),
          id |-> data[1].campaignRecordId, result |-> result])

\* An upstream call of the current iteration and whether it succeeded.
Call(api, ok) == [api |-> api, ok |-> ok]

\* FetchCampaignFail with the exception swallowed and an empty record used.
FetchCampaignFail_swallowed ==
    /\ pc = "campaign"
    /\ campaign_call' = CampaignCall(None)
    /\ response' = [status |-> 200,
                    message |-> "No linked influencers found for this campaign."]
    /\ pc' = "done"
    /\ UNCHANGED <<data, linked_influencer_ids, idx, update_results, iterVars>>

\* Lines 123-126, the fetch raising.
FetchCampaignFail ==
    /\ pc = "campaign"
    /\ campaign_call' = CampaignCall(None)
    /\ response' = [status |-> 500, error |-> "Failed to fetch campaign record"]
    /\ pc' = "done"
    /\ UNCHANGED <<data, linked_influencer_ids, idx, update_results, iterVars>>

\* FetchCampaignOk without the check of lines 130-131.
FetchCampaignOk_no_empty_check ==
    /\ pc = "campaign"
    /\ \E campaign_fields \in CampaignRecords :
        /\ campaign_call' = CampaignCall(Some(campaign_fields))
        /\ linked_influencer_ids' = Get(campaign_fields, "Creator", <<>>)
        /\ pc' = "loop"
        /\ UNCHANGED <<data, idx, update_results, response, iterVars>>

\* Lines 123-136, the fetch returning the record's fields.
FetchCampaignOk ==
    /\ pc = "campaign"
    /\ \E campaign_fields \in CampaignRecords :
        /\ campaign_call' = CampaignCall(Some(campaign_fields))
        /\ linked_influencer_ids' = Get(campaign_fields, "Creator", <<>>)
        /\ IF linked_influencer_ids' = <<>>
           THEN /\ response' = [status |-> 200,
                                message |-> "No linked influencers found for this campaign."]
                /\ pc' = "done"
           ELSE /\ pc' = "loop"
                /\ UNCHANGED response
        /\ UNCHANGED <<data, idx, update_results, iterVars>>

-----------------------------------------------------------------------------
(* The handler: one influencer *)

\* The influencer of the current iteration.
influencer_id == linked_influencer_ids[idx]

Entry(id, status) == [influencerId |-> id, status |-> status]
EntryWith(id, status, reason) == [influencerId |-> id, status |-> status, reason |-> reason]

\* Report with the entry put at the front of the list.
Report_prepend(entry) ==
    /\ update_results' = <<entry>> \o update_results
    /\ pc' = "loop"
    /\ UNCHANGED response

\* `continue` with a report entry for the current influencer.
Report(entry) ==
    /\ update_results' = Append(update_results, entry)
    /\ pc' = "loop"
    /\ UNCHANGED response

\* The exception leaves the handler.
Raise(exc) ==
    /\ response' = Unhandled(exc)
    /\ pc' = "done"
    /\ UNCHANGED update_results

\* Lines 138-143, the fetch raising.  The locals of the previous iteration are
\* dead here (each is assigned again before it is read), so they are cleared.
FetchInfluencerFail ==
    /\ pc = "loop"
    /\ idx < Len(linked_influencer_ids)
    /\ idx' = idx + 1
    /\ calls' = <<Call("GET Influencers", FALSE)>>
    /\ update_results' = Append(update_results,
           EntryWith(linked_influencer_ids[idx'], "failed", "Failed to fetch influencer record"))
    /\ pc' = "loop"
    /\ channel_id' = None /\ playlist_id' = None
    /\ pages' = <<>> /\ next_page' = None /\ video_ids' = <<>>
    /\ stats_i' = 0 /\ batches' = <<>> /\ stats' = <<>> /\ video_stats' = <<>>
    /\ longform_views' = <<>> /\ longform_likes' = <<>> /\ longform_comments' = <<>>
    /\ fields' = None
    /\ UNCHANGED <<reqVars, response>>

\* Lines 138-148, the fetch returning the record's fields.
FetchInfluencerOk ==
    /\ pc = "loop"
    /\ idx < Len(linked_influencer_ids)
    /\ \E influencer_fields \in InfluencerRecords :
        /\ idx' = idx + 1
        /\ calls' = <<Call("GET Influencers", TRUE)>>
        /\ channel_id' = GetOpt(influencer_fields, "YouTube Channel ID")
        /\ IF Falsy(channel_id')
           THEN /\ update_results' = Append(update_results,
                       EntryWith(linked_influencer_ids[idx'], "skipped", "No YouTube Channel ID"))
                /\ pc' = "loop"
           ELSE /\ pc' = "channel"
                /\ UNCHANGED update_results
        /\ playlist_id' = None
        /\ pages' = <<>> /\ next_page' = None /\ video_ids' = <<>>
        /\ stats_i' = 0 /\ batches' = <<>> /\ stats' = <<>> /\ video_stats' = <<>>
        /\ longform_views' = <<>> /\ longform_likes' = <<>> /\ longform_comments' = <<>>
        /\ fields' = None
        /\ UNCHANGED <<reqVars, response>>

\* Lines 192-196, after the last iteration.
Finish ==
    /\ pc = "loop"
    /\ idx = Len(linked_influencer_ids)
    /\ response' = [status |-> 200, message |-> "Engagement update complete.",
                    campaignRecordId |-> data[1].campaignRecordId,
                    results |-> update_results]
    /\ pc' = "done"
    /\ UNCHANGED <<reqVars, idx, update_results, iterVars>>

\* Lines 44-47: the uploads playlist named by a channels response, or None.
get_uploads_playlist_id(body) ==
    LET items == Get(body, "items", <<>>)
    IN  IF items = <<>> THEN None ELSE Some(items[1].uploads)

\* Lines 150 and 42-43: the channels lookup answers with an error status.
ResolvePlaylistFail ==
    /\ pc = "channel"
    /\ calls' = Append(calls, Call("GET channels", FALSE))
    /\ Raise("HTTPError")
    /\ UNCHANGED <<reqVars, idx, channel_id, playlist_id, listVars, statVars, aggVars>>

\* Lines 150-153, the channels lookup answering.
ResolvePlaylistOk ==
    /\ pc = "channel"
    /\ \E body \in ChannelResponses :
        /\ calls' = Append(calls, Call("GET channels", TRUE))
        /\ playlist_id' = get_uploads_playlist_id(body)
        /\ IF Falsy(playlist_id')
           THEN Report(EntryWith(influencer_id, "skipped", "No uploads playlist"))
           ELSE /\ pc' = "list"
                /\ UNCHANGED <<update_results, response>>
        /\ UNCHANGED <<reqVars, idx, channel_id, listVars, statVars, aggVars>>

-----------------------------------------------------------------------------
(* get_recent_video_ids *)

\* Lines 67-72: the ids of the items of one page published at or after the cutoff.
RECURSIVE RecentIds(_, _)
RecentIds(items, cutoff_date) ==
    IF items = <<>> THEN <<>>
    ELSE (IF Head(items).videoPublishedAt >= cutoff_date
          THEN <<Head(items).videoId>> ELSE <<>>)
         \o RecentIds(Tail(items), cutoff_date)

\* AnotherPage without the break of lines 74-75.
AnotherPage_token_only(found_recent, token) == token # None

\* AnotherPage without the break of lines 78-79.
AnotherPage_found_only(found_recent, token) == found_recent

\* Lines 74-79: whether the loop goes round again after a page.
AnotherPage(found_recent, token) == found_recent /\ token # None

\* Lines 63-64: the playlistItems request answers with an error status.
ListPageFail ==
    /\ pc = "list"
    /\ calls' = Append(calls, Call("GET playlistItems", FALSE))
    /\ pages' = Append(pages, [pageToken |-> next_page, data |-> EmptyDict])
    /\ Raise("HTTPError")
    /\ UNCHANGED <<reqVars, idx, channel_id, playlist_id, next_page, video_ids,
                   statVars, aggVars>>

\* Lines 53-79: one round of the loop, the request answering with one of
\* `responses`.  The loop is entered with video_ids = [] and next_page = None
\* (lines 51-52).
ListPageOk(responses) ==
    /\ pc = "list"
    /\ \E body \in responses :
        LET recent == RecentIds(Get(body, "items", <<>>), CUTOFF_DATE)
            found_recent == recent # <<>>
            token == GetOpt(body, "nextPageToken")
        IN  /\ calls' = Append(calls, Call("GET playlistItems", TRUE))
            /\ pages' = Append(pages, [pageToken |-> next_page, data |-> body])
            /\ video_ids' = video_ids \o recent
            /\ next_page' = IF found_recent THEN token ELSE next_page
            /\ pc' = IF AnotherPage(found_recent, token) THEN "list" ELSE "listed"
            /\ UNCHANGED <<reqVars, idx, update_results, response, channel_id, playlist_id,
                           statVars, aggVars>>

\* Lines 81 and 155-158: the list is returned to the handler.
ListReturn ==
    /\ pc = "listed"
    /\ pages' = <<>>
    /\ next_page' = None
    /\ IF video_ids = <<>>
       THEN Report(EntryWith(influencer_id, "skipped", "No recent videos"))
       ELSE /\ pc' = "stats"
            /\ UNCHANGED <<update_results, response>>
    /\ UNCHANGED <<reqVars, idx, calls, channel_id, playlist_id, video_ids, statVars, aggVars>>

-----------------------------------------------------------------------------
(* get_video_stats_batch *)

\* Batch with the slice one short (video_ids[i:i + 49]).
Batch_short(ids, i) == SubSeq(ids, i + 1, Min(i + BatchSize - 1, Len(ids)))

\* Line 87: video_ids[i:i + 50].
Batch(ids, i) == SubSeq(ids, i + 1, Min(i + BatchSize, Len(ids)))

\* VideosBatchFail with the error caught inside the loop and the items
\* gathered so far returned.
VideosBatchFail_partial ==
    /\ pc = "stats"
    /\ stats_i < Len(video_ids)
    /\ calls' = Append(calls, Call("GET videos", FALSE))
    /\ batches' = Append(batches, [ids |-> Batch(video_ids, stats_i), ok |-> FALSE,
                                   items |-> <<>>])
    /\ video_stats' = stats
    /\ stats' = <<>>
    /\ pc' = "aggregate"
    /\ UNCHANGED <<reqVars, idx, update_results, response, channel_id, playlist_id,
                   listVars, stats_i, aggVars>>

\* Lines 93-94: a videos request answers with an error status.  The exception
\* unwinds get_video_stats_batch, whose accumulator is lost with its frame,
\* and then the handler, which has no handler around line 160.
VideosBatchFail ==
    /\ pc = "stats"
    /\ stats_i < Len(video_ids)
    /\ calls' = Append(calls, Call("GET videos", FALSE))
    /\ batches' = Append(batches, [ids |-> Batch(video_ids, stats_i), ok |-> FALSE,
                                   items |-> <<>>])
    /\ stats' = <<>>
    /\ Raise("HTTPError")
    /\ UNCHANGED <<reqVars, idx, channel_id, playlist_id, listVars, stats_i, video_stats,
                   aggVars>>

\* Lines 86-95: one round of the loop, the request answering with one of
\* `responses`.  The loop is entered with stats = [] and i = 0.
VideosBatchOk(responses) ==
    /\ pc = "stats"
    /\ stats_i < Len(video_ids)
    /\ \E body \in responses :
        /\ calls' = Append(calls, Call("GET videos", TRUE))
        /\ batches' = Append(batches, [ids |-> Batch(video_ids, stats_i), ok |-> TRUE,
                                       items |-> Get(body, "items", <<>>)])
        /\ stats' = stats \o Get(body, "items", <<>>)
        /\ stats_i' = stats_i + BatchSize
        /\ UNCHANGED <<pc, reqVars, idx, update_results, response, channel_id, playlist_id,
                       listVars, video_stats, aggVars>>

\* Lines 96 and 160: the accumulated items are returned to the handler.
StatsReturn ==
    /\ pc = "stats"
    /\ stats_i >= Len(video_ids)
    /\ video_stats' = stats
    /\ stats' = <<>>
    /\ pc' = "aggregate"
    /\ UNCHANGED <<reqVars, idx, update_results, response, calls, channel_id, playlist_id,
                   listVars, stats_i, batches, aggVars>>

-----------------------------------------------------------------------------
(* The handler: aggregation and update *)

\* int(stats.get(key, 0)): the count, or None where int raises.
CountOf(video, key) == IF key \in DOMAIN video THEN ParseInt(video[key]) ELSE Some(0)

\* Lines 165-172, one video: the three lists after it.  A KeyError on the
\* duration or a ValueError from int leaves the body at that point, with the
\* appends made before it kept.
CollectOne(video, acc) ==
    IF "duration" \notin DOMAIN video THEN acc
    ELSE IF ~is_longform(video.duration) THEN acc
    ELSE LET v == CountOf(video, "viewCount")
             l == CountOf(video, "likeCount")
             c == CountOf(video, "commentCount")
         IN  IF v = None THEN acc
             ELSE IF l = None THEN [acc EXCEPT !.views = Append(@, v[1])]
             ELSE IF c = None THEN [acc EXCEPT !.views = Append(@, v[1]),
                                               !.likes = Append(@, l[1])]
             ELSE [views |-> Append(acc.views, v[1]), likes |-> Append(acc.likes, l[1]),
                   comments |-> Append(acc.comments, c[1])]

\* Lines 162-172: the three lists collected from the fetched details.
RECURSIVE Collect(_, _)
Collect(videos, acc) ==
    IF videos = <<>> THEN acc ELSE Collect(Tail(videos), CollectOne(Head(videos), acc))

\* Lines 178-180: int(sum(xs) / len(xs)).
Average(xs) == IntDiv(Sum(xs), Len(xs))

\* Lines 162-180.  An empty likes or comments list beside a non-empty views
\* list makes line 179 or 180 divide by zero.
Aggregate ==
    /\ pc = "aggregate"
    /\ LET lists == Collect(video_stats, [views |-> <<>>, likes |-> <<>>, comments |-> <<>>])
       IN  /\ longform_views' = lists.views
           /\ longform_likes' = lists.likes
           /\ longform_comments' = lists.comments
           /\ IF lists.views = <<>>
              THEN /\ Report(EntryWith(influencer_id, "skipped", "No longform videos found"))
                   /\ UNCHANGED fields
              ELSE IF lists.likes = <<>> \/ lists.comments = <<>>
              THEN /\ Raise("ZeroDivisionError")
                   /\ UNCHANGED fields
              ELSE /\ fields' = Some([LGVPV90 |-> Average(lists.views),
                                      LGLPV90 |-> Average(lists.likes),
                                      LGCPV90 |-> Average(lists.comments)])
                   /\ pc' = "update"
                   /\ UNCHANGED <<update_results, response>>
    /\ UNCHANGED <<reqVars, idx, calls, channel_id, playlist_id, listVars, statVars>>

\* Lines 182-188, the update going through.
UpdateOk ==
    /\ pc = "update"
    /\ calls' = Append(calls, Call("PATCH Influencers", TRUE))
    /\ Report(Entry(influencer_id, "success"))
    /\ UNCHANGED <<reqVars, idx, channel_id, playlist_id, listVars, statVars, aggVars>>

\* UpdateFail with the update tried again.
UpdateFail_retry ==
    /\ pc = "update"
    /\ calls' = Append(calls, Call("PATCH Influencers", FALSE))
    /\ UNCHANGED <<pc, update_results, response>>
    /\ UNCHANGED <<reqVars, idx, channel_id, playlist_id, listVars, statVars, aggVars>>

\* Lines 182-190, the update raising.
UpdateFail ==
    /\ pc = "update"
    /\ calls' = Append(calls, Call("PATCH Influencers", FALSE))
    /\ Report(EntryWith(influencer_id, "failed", "Failed to update Airtable"))
    /\ UNCHANGED <<reqVars, idx, channel_id, playlist_id, listVars, statVars, aggVars>>

-----------------------------------------------------------------------------
(* One request *)

Next ==
    \/ CheckRequest
    \/ FetchCampaignFail
    \/ FetchCampaignOk
    \/ FetchInfluencerFail
    \/ FetchInfluencerOk
    \/ ResolvePlaylistFail
    \/ ResolvePlaylistOk
    \/ ListPageFail
    \/ ListPageOk(PageResponses(pages, ChannelPlaylists))
    \/ ListReturn
    \/ VideosBatchFail
    \/ VideosBatchOk(VideoResponses(Batch(video_ids, stats_i), ChannelVideoKinds))
    \/ StatsReturn
    \/ Aggregate
    \/ UpdateOk
    \/ UpdateFail
    \/ Finish

Spec == Init /\ [][Next]_vars

-----------------------------------------------------------------------------
(* The helpers on their own *)

\* The handler inside the iteration for its first influencer, at `at`, having
\* listed `ids` and fetched `details`.
Inside(at, ids, details) ==
    /\ pc = at
    /\ data = Some([campaignRecordId |-> "recC"])
    /\ campaign_call = Some([table |-> "Campaigns", id |-> "recC",
                             result |-> Some([Creator |-> <<"recA">>])])
    /\ linked_influencer_ids = <<"recA">>
    /\ idx = 1
    /\ update_results = <<>>
    /\ response = None
    /\ calls = <<Call("GET Influencers", TRUE), Call("GET channels", TRUE)>>
    /\ channel_id = Some("UC1")
    /\ playlist_id = Some("UU1")
    /\ pages = <<>>
    /\ next_page = None
    /\ video_ids = ids
    /\ stats_i = 0
    /\ batches = <<>>
    /\ stats = <<>>
    /\ video_stats = details
    /\ longform_views = <<>>
    /\ longform_likes = <<>>
    /\ longform_comments = <<>>
    /\ fields = None

\* get_recent_video_ids, called at line 155.
ListInit == Inside("list", <<>>, <<>>)

ListNext ==
    ListPageFail \/ ListPageOk(PageResponses(pages, AnyPlaylists)) \/ ListReturn

ListSpec == ListInit /\ [][ListNext]_vars

\* The same with each request coming back, with a page or with an error: the
\* code is sequential and waits for the answer.
ListLiveSpec == ListSpec /\ WF_vars(ListNext)

\* get_video_stats_batch, called with the ids 1..n.  The videos endpoint
\* answers a batch with an item for every id, or for every id but the first.
BatchItems(batch) == [k \in 1..Len(batch) |-> [id |-> batch[k], duration |-> PT3M0S]]

BatchResponses(batch) ==
    {[items |-> BatchItems(batch)]}
    \cup (IF batch = <<>> THEN {} ELSE {[items |-> Tail(BatchItems(batch))]})

BatchInit == \E n \in 0..MaxIds : Inside("stats", [k \in 1..n |-> k], <<>>)

BatchNext == VideosBatchFail \/ VideosBatchOk(BatchResponses(Batch(video_ids, stats_i))) \/ StatsReturn

BatchSpec == BatchInit /\ [][BatchNext]_vars

\* Lines 162-190, entered with the details of up to MaxDetails videos.
AggInit ==
    \E n \in 1..MaxDetails :
        \E body \in VideoResponses([k \in 1..n |-> k], VideoKinds) :
            Inside("aggregate", [k \in 1..n |-> k], body.items)

AggNext == Aggregate \/ UpdateOk \/ UpdateFail

AggSpec == AggInit /\ [][AggNext]_vars

\* str(n) for n >= 0.
DigitChars == <<"0", "1", "2", "3", "4", "5", "6", "7", "8", "9">>

RECURSIVE ToDigits(_)
ToDigits(n) ==
    IF n < 10 THEN <<DigitChars[n + 1]>>
    ELSE ToDigits(n \div 10) \o <<DigitChars[(n % 10) + 1]>>

\* The components of a duration text: weeks, days, whether the time part is
\* there, hours, minutes, seconds, each component present or not.
DurationParts ==
    { p \in [w : {None, Some(1)}, d : {None, Some(0), Some(1)}, t : BOOLEAN,
             h : {None, Some(0), Some(1)},
             m : {None, Some(0), Some(2), Some(3)},
             s : {None, Some(0), Some(59), Some(60), Some(179), Some(180)}] :
        /\ ~p.t => (p.h = None /\ p.m = None /\ p.s = None)
        /\ (p.w = None /\ p.d = None) => p.t }

\* The text of a component, and of a duration.
Component(n, designator) == IF n = None THEN <<>> ELSE ToDigits(n[1]) \o <<designator>>

Render(p) ==
    <<"P">> \o Component(p.w, "W") \o Component(p.d, "D")
    \o (IF p.t
        THEN <<"T">> \o Component(p.h, "H") \o Component(p.m, "M") \o Component(p.s, "S")
        ELSE <<>>)

\* Texts that are no duration: no "P", a bare "P", a clock time, components
\* out of order or outside the time part, a number or a designator on its own.
MalformedDurations ==
    { <<>>, <<"P">>, <<"3", ":", "0", "0">>, <<"T", "3", "M">>, <<"3", "M">>,
      <<"P", "T", "3", "S", "3", "M">>, <<"P", "3", "H">>, <<"P", "T", "3">>,
      <<"P", "T", "M">>, <<"P", "T", "3", "M", "0">>, <<"P", "T", "3", "M", "T", "1", "S">>,
      <<"n", "o", "t", "-", "a", "-", "d", "u", "r", "a", "t", "i", "o", "n">> }

DurationTexts == {Render(p) : p \in DurationParts} \cup MalformedDurations

\* is_longform, called at line 166 on the duration of the one fetched video,
\* whose counts are well formed.
LongformInit ==
    \E text \in DurationTexts :
        Inside("aggregate", <<1>>, <<[id |-> 1] @@ [LongVideoA EXCEPT !.duration = text]>>)

LongformNext == Aggregate

LongformSpec == LongformInit /\ [][LongformNext]_vars

-----------------------------------------------------------------------------
(* Properties *)

Last(s) == s[Len(s)]

\* The current influencer has its report entry.
Reported == idx >= 1 /\ Len(update_results) = idx

\* C1: when a call made for an influencer fails, the failure becomes that
\* influencer's skipped or failed report entry, with a reason, and the handler
\* is back at the head of the loop for the remaining influencers (or, after
\* the last one, has answered with the report); the request is never aborted.
C1_StepFailureIsReported ==
    (calls # <<>> /\ ~Last(calls).ok) =>
        /\ Reported
        /\ update_results[idx].influencerId = influencer_id
        /\ update_results[idx].status \in {"skipped", "failed"}
        /\ "reason" \in DOMAIN update_results[idx]
        /\ \/ pc = "loop"
           \/ /\ pc = "done"
              /\ response.status = 200
              /\ "results" \in DOMAIN response
              /\ response.results = update_results

CampaignFetched == campaign_call # None /\ campaign_call[1].result # None

\* C2: once the campaign record has been fetched, the request ends with status
\* 200, and for a campaign with linked influencers with the report array,
\* whatever happened to the individual influencers.
C2_CampaignFetchedMeans200 ==
    (pc = "done" /\ CampaignFetched) =>
        /\ response.status = 200
        /\ linked_influencer_ids # <<>> => "results" \in DOMAIN response

NoRecordId == data = None \/ "campaignRecordId" \notin DOMAIN data[1]

CampaignFetchFailed == campaign_call # None /\ campaign_call[1].result = None

\* No influencer record was fetched, no video-platform call and no update made.
NoInfluencerWork == idx = 0 /\ calls = <<>> /\ update_results = <<>>

\* C3: a request without campaignRecordId makes no upstream call at all and
\* is answered 400; a failed campaign fetch is answered 500 with no
\* influencer fetch, video-platform call or update ever made.
C3_FatalErrorsStopEarly ==
    /\ NoRecordId =>
        /\ campaign_call = None
        /\ NoInfluencerWork
        /\ pc \in {"start", "done"}
        /\ pc = "done" => response.status = 400
    /\ CampaignFetchFailed =>
        /\ NoInfluencerWork
        /\ pc = "done"
        /\ response.status = 500
        /\ "error" \in DOMAIN response

C3_Witness ==
    /\ CampaignFetchFailed
    /\ pc = "done"
    /\ response = [status |-> 500, error |-> "Failed to fetch campaign record"]

\* C4: an influencer whose fetched record has no channel id, absent or empty,
\* gets exactly the entry skipped / "No YouTube Channel ID", and the fetch of
\* its record is the only call of its iteration: no channel lookup, playlist
\* listing, video details or update.
C4_NoChannelIdIsSkipped ==
    (calls # <<>> /\ calls[1].ok /\ channel_id \in {None, Some("")}) =>
        /\ calls = <<Call("GET Influencers", TRUE)>>
        /\ Reported
        /\ update_results[idx] =
               EntryWith(influencer_id, "skipped", "No YouTube Channel ID")

C4_Witness ==
    /\ pc = "loop"
    /\ idx = 1
    /\ Len(linked_influencer_ids) = 2
    /\ channel_id = Some("")
    /\ calls = <<Call("GET Influencers", TRUE)>>
    /\ update_results = <<EntryWith("recA", "skipped", "No YouTube Channel ID")>>

\* The items of a fetched page published at or after the cutoff.
Qualifying(page) ==
    SelectSeq(Get(page.data, "items", <<>>),
              LAMBDA item : ~(item.videoPublishedAt < Now - 90))

HasToken(page) == "nextPageToken" \in DOMAIN page.data

RECURSIVE QualifyingIds(_)
QualifyingIds(ps) ==
    IF ps = <<>> THEN <<>>
    ELSE [k \in 1..Len(Qualifying(Head(ps))) |-> Qualifying(Head(ps))[k].videoId]
         \o QualifyingIds(Tail(ps))

\* C5: get_recent_video_ids asks for a further page only while every page so
\* far contributed a qualifying item and carried a token; it returns after the
\* first page that contributes none (token or not) or carries no token, and
\* what it returns is the qualifying ids of the pages fetched, in page order.
C5_PagingStopsAtFirstOldPage ==
    /\ pc = "list" =>
        \A k \in 1..Len(pages) : Qualifying(pages[k]) # <<>> /\ HasToken(pages[k])
    /\ pc = "listed" =>
        /\ pages # <<>>
        /\ \A k \in 1..(Len(pages) - 1) : Qualifying(pages[k]) # <<>> /\ HasToken(pages[k])
        /\ Qualifying(Last(pages)) = <<>> \/ ~HasToken(Last(pages))
        /\ video_ids = QualifyingIds(pages)

\* Two pages fetched, the second all older than the cutoff and carrying a
\* token: the ids of page 1 are returned and no third page is asked for.
C5_Witness ==
    /\ pc = "listed"
    /\ Len(pages) = 2
    /\ pages[2].data.items # <<>>
    /\ Qualifying(pages[2]) = <<>>
    /\ HasToken(pages[2])
    /\ Len(pages[1].data.items) = 2
    /\ video_ids = <<1, 2>>

RECURSIVE BatchIds(_)
BatchIds(bs) == IF bs = <<>> THEN <<>> ELSE Head(bs).ids \o BatchIds(Tail(bs))

RECURSIVE BatchResults(_)
BatchResults(bs) == IF bs = <<>> THEN <<>> ELSE Head(bs).items \o BatchResults(Tail(bs))

\* C6: when get_video_stats_batch returns, it has made ceil(n/50) requests
\* for its n ids; the batches are consecutive slices of the ids, 50 in each
\* but the last, which has 1 to 50; and the result is the batches' results
\* in batch order.
C6_BatchesOfFifty ==
    pc = "aggregate" =>
        /\ Len(batches) = (Len(video_ids) + 49) \div 50
        /\ \A k \in 1..Len(batches) :
            /\ batches[k].ok
            /\ k < Len(batches) => Len(batches[k].ids) = 50
            /\ k = Len(batches) => Len(batches[k].ids) \in 1..50
        /\ BatchIds(batches) = video_ids
        /\ video_stats = BatchResults(batches)

C6_Witness ==
    /\ pc = "aggregate"
    /\ Len(video_ids) = 101
    /\ Len(batches) = 3
    /\ <<Len(batches[1].ids), Len(batches[2].ids), Len(batches[3].ids)>> = <<50, 50, 1>>
    /\ Len(video_stats) = 100

\* The fetched details that are long-form: a duration of 180 s or more.
IsLongformVideo(video) ==
    /\ "duration" \in DOMAIN video
    /\ parse_duration(video.duration) # None
    /\ parse_duration(video.duration)[1] >= 180

LongformVideos == SelectSeq(video_stats, IsLongformVideo)

\* floor(sum / count) of one count over the long-form videos, absent as 0:
\* None when a long-form video's count is not a number.
FloorAverage(key) ==
    LET counts == [k \in 1..Len(LongformVideos) |-> CountOf(LongformVideos[k], key)]
    IN  IF \E k \in 1..Len(counts) : counts[k] = None THEN None
        ELSE Some(Sum([k \in 1..Len(counts) |-> counts[k][1]]) \div Len(counts))

ReportedSuccess == Reported /\ update_results[idx] = Entry(influencer_id, "success")

\* C7: an influencer reported as success was updated with, for each metric,
\* floor(sum / count) over exactly the long-form videos among the fetched
\* details, an absent count being 0.
C7_AveragesOverLongform ==
    ReportedSuccess =>
        /\ Last(calls) = Call("PATCH Influencers", TRUE)
        /\ FloorAverage("viewCount") = Some(fields[1].LGVPV90)
        /\ FloorAverage("likeCount") = Some(fields[1].LGLPV90)
        /\ FloorAverage("commentCount") = Some(fields[1].LGCPV90)

UpdateFailed == calls # <<>> /\ Last(calls) = Call("PATCH Influencers", FALSE)

\* C8: a failed update gives its influencer the entry failed / "Failed to
\* update Airtable", and the request still ends with a report that has an
\* entry for every linked influencer, those after it included.
C8_UpdateFailureIsLocal ==
    /\ UpdateFailed =>
        /\ Reported
        /\ update_results[idx] = EntryWith(influencer_id, "failed", "Failed to update Airtable")
    /\ (pc = "done" /\ \E k \in 1..Len(update_results) :
                          update_results[k].status = "failed"
                          /\ update_results[k].reason = "Failed to update Airtable") =>
        /\ Len(update_results) = Len(linked_influencer_ids)
        /\ "results" \in DOMAIN response
        /\ response.results = update_results

NoLinkedInfluencers ==
    /\ CampaignFetched
    /\ \/ "Creator" \notin DOMAIN campaign_call[1].result[1]
       \/ campaign_call[1].result[1].Creator = <<>>

\* C9: a campaign fetched with no linked influencers, the link field absent
\* or empty, is answered 200 with the no-linked-influencers message, and no
\* influencer fetch, video-platform call or update is made.
C9_NoInfluencersIs200 ==
    NoLinkedInfluencers =>
        /\ pc = "done"
        /\ response = [status |-> 200,
                       message |-> "No linked influencers found for this campaign."]
        /\ NoInfluencerWork

C9_Witness ==
    /\ CampaignFetched
    /\ campaign_call[1].result[1] = EmptyDict
    /\ pc = "done"
    /\ response.status = 200
    /\ "results" \notin DOMAIN response

\* C10: once a videos request of get_video_stats_batch has failed, no further
\* request is made, nothing is returned to the caller (the items of the
\* batches that succeeded are gone with the accumulator) and the error is
\* what comes out.
C10_BatchFailureDiscardsAll ==
    (\E k \in 1..Len(batches) : ~batches[k].ok) =>
        /\ \A k \in 1..(Len(batches) - 1) : batches[k].ok
        /\ video_stats = <<>>
        /\ stats = <<>>
        /\ pc = "done"
        /\ "unhandled" \in DOMAIN response

C10_Witness ==
    /\ Len(batches) = 3
    /\ batches[1].ok /\ Len(batches[1].items) = 50
    /\ batches[2].ok /\ Len(batches[2].items) = 50
    /\ ~batches[3].ok
    /\ video_stats = <<>>
    /\ pc = "done"

\* Seconds in a duration of the given components.
TotalSeconds(p) ==
    LET n(x) == IF x = None THEN 0 ELSE x[1]
    IN  604800 * n(p.w) + 86400 * n(p.d) + 3600 * n(p.h) + 60 * n(p.m) + n(p.s)

\* C11: is_longform is true exactly for a text that parses as a duration of
\* at least 180 seconds (180 s is long-form, 179 s is not); for a text that
\* is no duration it is false, and nothing is raised: the video is left out
\* of the lists and the handler goes on.
C11_LongformIffAtLeast180 ==
    LET text == video_stats[1].duration
    IN  /\ \A p \in DurationParts :
               text = Render(p) => (is_longform(text) <=> TotalSeconds(p) >= 180)
        /\ text \in MalformedDurations => ~is_longform(text)
        /\ pc # "aggregate" =>
               /\ response = None
               /\ longform_views # <<>> <=> is_longform(text)

C11_Witness ==
    /\ pc = "update"
    /\ video_stats[1].duration = PT3M0S
    /\ longform_views = <<100>>

\* Number of calls of the current iteration made to `api`.
CountCalls(api) == Cardinality({k \in 1..Len(calls) : calls[k].api = api})

\* C12: within one iteration the influencer record, the channel and the
\* update are each requested at most once, each playlist page and each batch
\* of details once, and a call that failed is the last call (no retry); an
\* update is issued only when a fetched video is long-form; the entry is
\* success exactly when the update was issued and went through, and a skipped
\* influencer had no update issued.
C12_NoRetryOneUpdate ==
    /\ CountCalls("GET Influencers") <= 1
    /\ CountCalls("GET channels") <= 1
    /\ CountCalls("PATCH Influencers") <= 1
    /\ pc \in {"list", "listed"} =>
           /\ CountCalls("GET playlistItems") = Len(pages)
           /\ \A j, k \in 1..Len(pages) : pages[j].pageToken = pages[k].pageToken => j = k
    /\ CountCalls("GET videos") = Len(batches)
    /\ \A j, k \in 1..Len(batches) : batches[j].ids = batches[k].ids => j = k
    /\ \A k \in 1..Len(calls) : ~calls[k].ok => k = Len(calls)
    /\ CountCalls("PATCH Influencers") > 0 =>
           \E k \in 1..Len(video_stats) :
               /\ "duration" \in DOMAIN video_stats[k]
               /\ is_longform(video_stats[k].duration)
    /\ Reported =>
           /\ update_results[idx].status = "success"
                  <=> (calls # <<>> /\ Last(calls) = Call("PATCH Influencers", TRUE))
           /\ update_results[idx].status = "skipped" => CountCalls("PATCH Influencers") = 0

C12_Witness ==
    /\ pc = "loop"
    /\ idx = 2
    /\ Reported
    /\ update_results[1].status = "success"
    /\ update_results[2].status = "failed"
    /\ Last(calls) = Call("PATCH Influencers", FALSE)

\* C13: once the details were gone through, the three lists have the same
\* length and hold the counts of the same videos, whatever the count fields
\* of the details look like; so with a non-empty views list no average
\* divides by zero.
C13_ListsInStep ==
    pc # "aggregate" =>
        /\ Len(longform_likes) = Len(longform_views)
        /\ Len(longform_comments) = Len(longform_views)
        /\ ~(pc = "done" /\ "unhandled" \in DOMAIN response)

\* The entries are those of the first n linked influencers, in the order of
\* the list, each success, skipped or failed, with a reason exactly when
\* skipped or failed.
EntriesFor(results, n) ==
    /\ Len(results) = n
    /\ \A k \in 1..n :
           /\ results[k].influencerId = linked_influencer_ids[k]
           /\ results[k].status \in {"success", "skipped", "failed"}
           /\ "reason" \in DOMAIN results[k] <=> results[k].status \in {"skipped", "failed"}

\* C14: at the head of the loop the report has one such entry for each
\* influencer gone through, and the final response of a campaign with linked
\* influencers carries one for each element of the list, in its order.
C14_OneEntryPerInfluencerInOrder ==
    /\ pc = "loop" => EntriesFor(update_results, idx)
    /\ (pc = "done" /\ "results" \in DOMAIN response) =>
           /\ linked_influencer_ids # <<>>
           /\ EntriesFor(response.results, Len(linked_influencer_ids))

C14_Witness ==
    /\ pc = "done"
    /\ "results" \in DOMAIN response
    /\ linked_influencer_ids = <<"recB", "recA">>
    /\ response.results[1].status = "skipped"
    /\ response.results[2].status = "success"

\* The pages fetched follow the chain from its first page: the first request
\* carries no token, each further one carries the token of the page before,
\* which contributed a qualifying item, and no page is requested twice.
AlongTheChain ==
    /\ Len(pages) <= MaxPages
    /\ pages # <<>> => pages[1].pageToken = None
    /\ \A k \in 1..(Len(pages) - 1) :
           /\ Qualifying(pages[k]) # <<>>
           /\ HasToken(pages[k])
           /\ pages[k + 1].pageToken = Some(pages[k].data.nextPageToken)
    /\ \A j, k \in 1..Len(pages) : pages[j].pageToken = pages[k].pageToken => j = k

\* C15: for a playlist served as a finite chain of pages, whatever the
\* timestamps are against the cutoff, get_recent_video_ids follows the chain
\* page by page, each page at most once and the next only after a page with a
\* qualifying item and a token, and its loop comes to an end.
C15_PagingTerminates ==
    /\ [](pc \in {"list", "listed"} => AlongTheChain)
    /\ <>(pc # "list")

\* The whole chain of three pages fetched, every page with a qualifying item.
C15_Witness ==
    /\ pc = "listed"
    /\ Len(pages) = 3
    /\ \A k \in 1..3 : Qualifying(pages[k]) # <<>>
    /\ ~HasToken(pages[3])

====
